---------------------------- MODULE Spec2Model ----------------------------
(***************************************************************************)
(* Model of the weekly sales ETL (etl_sales/etl): the Deduplicator         *)
(* (dedupe.py), the IdAssigner (transform.py), the ColumnRegistry          *)
(* (registry.py) and the load-week run that composes them (cli.py).        *)
(*                                                                         *)
(* A DataFrame is modelled as the sequence of its rows in row order; a row *)
(* is a record of the columns the pipeline reads.  An absent cell          *)
(* (None / NaN) of a text column is the value None, an absent id is NaN.   *)
(***************************************************************************)
EXTENDS Integers, Sequences, FiniteSets, TLC

VARIABLES
    dd,             \* one call of dedupe_against_existing: arguments and results
    ia,             \* one call of assign_incremental_ids: arguments and result
    registry,       \* ColumnRegistry._data: channel -> rows of its sheet
    registry_file,  \* the registry workbook at ColumnRegistry.path
    rc,             \* what the calls made on the registry object were given
                    \* and returned
    base,           \* the base workbook: channel -> rows of its history sheet
    run,            \* load_week: its options, its locals and where it stands
    fn              \* one call of a function of normalize.py, transform.py,
                    \* enrich.py or report.py: arguments and results; in
                    \* SpecWorkbook the workbook given to excel_processor.py
                    \* and the output directory it writes

vars == <<dd, ia, registry, registry_file, rc, base, run, fn>>

(***************************************************************************)
(* Bounds of the model.                                                    *)
(***************************************************************************)
MaxBatch == 3       \* rows of a batch handed to a function under test
MaxHist == 2        \* rows of a history handed to a function under test
MaxCalls == 2       \* register calls made in one behaviour of SpecRegistry
MaxRows == 1        \* rows of one input file
MaxRuns == 2        \* load-week runs in one behaviour of Spec
MaxWeekRows == 2    \* rows of one week's batch in SpecMerge
MaxTokens == 5      \* pieces of text in a cell of SpecArticul
MaxAliases == 1     \* aliases of one canonical name in SpecHeaders
MaxColumns == 2     \* headers of one raw table in SpecHeaders
MaxPrepRows == 2    \* rows of the raw table in SpecPrepare
MaxReportRows == 3  \* rows of the report in SpecEnrich
MaxMasterRows == 2  \* rows of the product master in SpecEnrich
MaxHeaderLen == 4   \* characters of a header in SpecNormalizeHeader
MaxMapColumns == 3  \* headers of one raw table in SpecMapColumns
MaxTableColumns == 3 \* headers of the raw table in SpecColumns
MaxSheets == 2      \* sheets of the workbook in SpecWorkbook
MaxDataRows == 1    \* rows after the header row of one sheet in SpecWorkbook
MaxWidth == 2       \* cells of one row of a sheet in SpecWorkbook
MaxProcessCalls == 2 \* process_workbook calls in one behaviour of SpecWorkbook

(***************************************************************************)
(* Cell values.                                                            *)
(***************************************************************************)
None == "None"      \* an absent text cell (None or NaN of an object column)
NaN == -1           \* an absent id cell; real ids are >= 0

Channels == <<"OZ", "WB">>
ChannelSet == {Channels[i] : i \in 1..Len(Channels)}
Products == {"1234-567-89", "1234-567-90"}
Stores == {"store"}
Starts == {1, 2}
Ordereds == {10, 20}

(***************************************************************************)
(* Sequence helpers.                                                       *)
(***************************************************************************)
\* The rows of s whose position is in I, in row order (boolean-mask selection).
RECURSIVE TakeIdx(_, _, _)
TakeIdx(s, I, i) ==
    IF i > Len(s) THEN <<>>
    ELSE (IF i \in I THEN <<s[i]>> ELSE <<>>) \o TakeIdx(s, I, i + 1)

Range(s) == {s[i] : i \in 1..Len(s)}

SetMax(S) == CHOOSE m \in S : \A x \in S : x <= m

\* All sequences over S of length at most n.
SeqUpTo(S, n) == UNION {[1..k -> S] : k \in 0..n}

(***************************************************************************)
(* dedupe.py                                                               *)
(***************************************************************************)
\* key_columns (cli.py:182): the composite key of a row.  Absent cells compare
\* equal to each other, as pandas' drop_duplicates and merge treat them.
KeyOf(r) ==
    <<r.articul_product, r.articul_store, r.report_period_start, r.playground>>

Keys(df) == {KeyOf(df[i]) : i \in 1..Len(df)}

UniqueKeys(df) ==
    \A i, j \in 1..Len(df) : i # j => KeyOf(df[i]) # KeyOf(df[j])

drop_duplicates_none(df) == df

drop_duplicates_first(df) ==
    TakeIdx(df, {i \in 1..Len(df) :
                    \A j \in 1..(i - 1) : KeyOf(df[j]) # KeyOf(df[i])}, 1)

\* new_df.drop_duplicates(subset=key_columns, keep="last")
drop_duplicates_last(df) ==
    TakeIdx(df, {i \in 1..Len(df) :
                    \A j \in (i + 1)..Len(df) : KeyOf(df[j]) # KeyOf(df[i])}, 1)

dedupe_ignoring_history(new_df, existing_df) ==
    [deduped |-> drop_duplicates_last(new_df), duplicates |-> <<>>]

dedupe_against_existing(new_df, existing_df) ==
    IF new_df = <<>>
    THEN [deduped |-> new_df, duplicates |-> new_df]
    ELSE LET new_unique == drop_duplicates_last(new_df)
         IN  IF existing_df = <<>>
             THEN [deduped |-> new_unique, duplicates |-> <<>>]
             ELSE LET existing_keys == Keys(existing_df)
                      \* left merge on the key columns: one merged row per row of
                      \* new_unique, in its order, flagged when the key is known
                      is_duplicate(i) == KeyOf(new_unique[i]) \in existing_keys
                      rows == 1..Len(new_unique)
                  IN  [duplicates |->
                           TakeIdx(new_unique, {i \in rows : is_duplicate(i)}, 1),
                       deduped |->
                           TakeIdx(new_unique, {i \in rows : ~is_duplicate(i)}, 1)]

(***************************************************************************)
(* transform.py: assign_incremental_ids                                    *)
(***************************************************************************)
isna(x) == x = NaN

IdsOf(df) == {df[i].id_key : i \in 1..Len(df)}

\* missing_mask (transform.py:127)
missing_mask(df) == {i \in 1..Len(df) : isna(df[i].id_key) \/ df[i].id_key = 0}

\* The mutants of start_id and assign_incremental_ids.
start_id_reusing_max(existing_df) ==
    IF existing_df # <<>> THEN SetMax(IdsOf(existing_df)) ELSE 1

\* start_id (transform.py:122-125)
start_id(existing_df) ==
    IF existing_df # <<>> THEN SetMax(IdsOf(existing_df)) + 1 ELSE 1

assign_ids_to_all_rows(df, existing_df) ==
    [i \in 1..Len(df) |-> [df[i] EXCEPT !.id_key = start_id(existing_df) + i - 1]]

assign_incremental_ids(df, existing_df) ==
    IF df = <<>> THEN df
    ELSE IF \E i \in 1..Len(df) : ~isna(df[i].id_key)
         THEN \* df.loc[missing_mask, id_column] = range(start_id, start_id + count)
              LET mask == missing_mask(df)
                  rank(i) == Cardinality({j \in mask : j < i})
              IN  [i \in 1..Len(df) |->
                      IF i \in mask
                      THEN [df[i] EXCEPT !.id_key = start_id(existing_df) + rank(i)]
                      ELSE df[i]]
         ELSE \* df[id_column] = range(start_id, start_id + len(df))
              [i \in 1..Len(df) |->
                  [df[i] EXCEPT !.id_key = start_id(existing_df) + i - 1]]

(***************************************************************************)
(* registry.py: ColumnRegistry                                             *)
(***************************************************************************)
MappedNames == {"Other_promo", "Other_promo_1"}
Originals == {"Promo", "Sale"}
\* The files register is called for, each with the day it is processed on.
Sightings == {[file_path |-> "a.xlsx", today |-> 1],
              [file_path |-> "b.xlsx", today |-> 2]}

NoSheets == [p \in ChannelSet |-> <<>>]

\* A column_mapping {mapped_name: original_name} as the sequence of its items;
\* the mapped names, being dict keys, are distinct.
ColumnMappings ==
    {m \in SeqUpTo(MappedNames \X Originals, 2) :
        \A i, j \in 1..Len(m) : i # j => m[i][1] # m[j][1]}

RegistryEntry(item, file_path, today) ==
    [mapped_name |-> item[1], original_name |-> item[2],
     first_seen_date |-> today, first_seen_file |-> file_path]

OriginalsOf(sheet) == {sheet[i].original_name : i \in 1..Len(sheet)}

\* The mutant of register: every pair is appended, recorded or not.
register_without_lookup(data, platform, column_mapping, file_path, today) ==
    [data |-> [data EXCEPT ![platform] = data[platform] \o
                  [i \in 1..Len(column_mapping) |->
                      RegistryEntry(column_mapping[i], file_path, today)]],
     ret |-> Len(column_mapping)]

\* ColumnRegistry.register: the registry's data after the call and the count
\* returned.  recorded_originals is computed once, before the loop.
register(data, platform, column_mapping, file_path, today) ==
    IF column_mapping = <<>>
    THEN [data |-> data, ret |-> 0]
    ELSE LET platform_sheet == data[platform]
             recorded_originals == OriginalsOf(platform_sheet)
             kept == TakeIdx(column_mapping,
                             {i \in 1..Len(column_mapping) :
                                 column_mapping[i][2] \notin recorded_originals}, 1)
             new_rows == [i \in 1..Len(kept) |->
                             RegistryEntry(kept[i], file_path, today)]
         IN  [data |-> IF new_rows # <<>>
                       THEN [data EXCEPT ![platform] = platform_sheet \o new_rows]
                       ELSE data,
              ret |-> Len(new_rows)]

\* ColumnRegistry.flush: the workbook after the call.
flush(data, file) == IF data = NoSheets THEN file ELSE data

\* ColumnRegistry.__post_init__: _data of a registry built on the workbook;
\* a workbook that cannot be read gives an empty registry.
post_init(file, readable) == IF readable THEN file ELSE NoSheets

RegistryPairs(data) ==
    {<<p, o>> \in ChannelSet \X Originals : o \in OriginalsOf(data[p])}

NoCall == [op |-> "none", platform |-> "", column_mapping |-> <<>>,
           ret |-> 0, added |-> 0, repeated |-> FALSE, fresh |-> FALSE]

CallsIdle == [n |-> 0, passed |-> {}, loaded |-> {}, flushed |-> FALSE,
              last |-> NoCall]

(***************************************************************************)
(* normalize.py: the business key                                          *)
(***************************************************************************)
\* A raw cell: absent (None / NaN), or a text given as its characters.
Null == [isnull |-> TRUE, chars |-> <<>>]
Text(chars) == [isnull |-> FALSE, chars |-> chars]

Digits == {"0", "1", "2", "3", "4", "5", "6", "7", "8", "9"}

RECURSIVE strip_left(_)
strip_left(t) == IF t # <<>> /\ Head(t) = " " THEN strip_left(Tail(t)) ELSE t

RECURSIVE strip_right(_)
strip_right(t) ==
    IF t # <<>> /\ t[Len(t)] = " " THEN strip_right(SubSeq(t, 1, Len(t) - 1))
    ELSE t

strip(t) == strip_right(strip_left(t))

IsDigit(c) == c \in Digits

\* unidecode() of one character: an ASCII character is itself; SUPERSCRIPT
\* TWO becomes the digit 2, LATIN SMALL LETTER E WITH ACUTE the letter e.
\* Characters that are not ASCII are written by their code point.
unidecode_char(c) ==
    CASE c = "U+00B2" -> <<"2">>
      [] c = "U+00E9" -> <<"e">>
      [] OTHER -> <<c>>

RECURSIVE unidecode(_)
unidecode(t) ==
    IF t = <<>> THEN <<>> ELSE unidecode_char(Head(t)) \o unidecode(Tail(t))

\* f"{digits[0:4]}-{digits[4:7]}-{digits[7:9]}" for nine digits.
format_articul(d) ==
    d[1] \o d[2] \o d[3] \o d[4] \o "-" \o
    d[5] \o d[6] \o d[7] \o "-" \o d[8] \o d[9]

normalize_articul(value) ==
    IF value.isnull THEN None
    ELSE LET text == strip(unidecode(value.chars))
         IN  IF text = <<>> THEN None
             ELSE LET found == SelectSeq(text, IsDigit)
                  IN  IF Len(found) < 9 THEN None
                      ELSE format_articul(SubSeq(found, 1, 9))

\* A mask that flags every cell without a code.
invalid_when_absent(value) == normalize_articul(value) = None

\* invalid_mask of normalize_articul_series for one cell.
invalid_articul(value) ==
    /\ normalize_articul(value) = None
    /\ ~value.isnull
    /\ strip(value.chars) # <<>>

(***************************************************************************)
(* normalize.py: headers                                                   *)
(***************************************************************************)
\* str.lower() on the letters the headers are made of.
lower(c) ==
    CASE c = "A" -> "a" [] c = "Q" -> "q" [] c = "S" -> "s" [] OTHER -> c

\* The characters HEADER_SANITIZE_RE leaves alone: [0-9a-zA-Z_].
WordChars ==
    Digits \cup {"_", "a", "e", "n", "q", "s", "x", "A", "Q", "S",
                 "O", "t", "h", "r", "c", "o", "l", "u", "m", "d"}

RECURSIVE drop_non_word(_)
drop_non_word(t) ==
    IF t # <<>> /\ Head(t) \notin WordChars THEN drop_non_word(Tail(t)) ELSE t

\* HEADER_SANITIZE_RE.sub("_", text): each run of other characters gives "_".
RECURSIVE sanitize(_)
sanitize(t) ==
    IF t = <<>> THEN <<>>
    ELSE IF Head(t) \in WordChars THEN <<Head(t)>> \o sanitize(Tail(t))
    ELSE <<"_">> \o sanitize(drop_non_word(t))

RECURSIVE strip_underscores_left(_)
strip_underscores_left(t) ==
    IF t # <<>> /\ Head(t) = "_" THEN strip_underscores_left(Tail(t)) ELSE t

RECURSIVE strip_underscores_right(_)
strip_underscores_right(t) ==
    IF t # <<>> /\ t[Len(t)] = "_"
    THEN strip_underscores_right(SubSeq(t, 1, Len(t) - 1))
    ELSE t

normalize_header(name) ==
    LET stripped == strip(unidecode(name))
        lowered == [i \in 1..Len(stripped) |->
                       IF stripped[i] = " " THEN "_" ELSE lower(stripped[i])]
    IN  strip_underscores_right(strip_underscores_left(sanitize(lowered)))

\* An alias table is the sequence of its entries, in the order of the
\* mapping.  A lookup is the sequence of its registrations in the order they
\* are made: a later registration of a key replaces an earlier one.
RECURSIVE entry_registrations(_, _, _)
entry_registrations(canonical, aliases, i) ==
    IF i > Len(aliases) THEN <<>>
    ELSE <<[key |-> normalize_header(aliases[i]), canonical |-> canonical]>>
            \o entry_registrations(canonical, aliases, i + 1)

\* A lookup that registers the aliases but not the canonical names.
RECURSIVE build_alias_lookup_aliases_only(_)
build_alias_lookup_aliases_only(alias_map) ==
    IF alias_map = <<>> THEN <<>>
    ELSE entry_registrations(Head(alias_map).canonical,
                             Head(alias_map).aliases, 1)
            \o build_alias_lookup_aliases_only(Tail(alias_map))

RECURSIVE build_alias_lookup(_)
build_alias_lookup(alias_map) ==
    IF alias_map = <<>> THEN <<>>
    ELSE <<[key |-> normalize_header(Head(alias_map).canonical),
            canonical |-> Head(alias_map).canonical]>>
            \o entry_registrations(Head(alias_map).canonical,
                                   Head(alias_map).aliases, 1)
            \o build_alias_lookup(Tail(alias_map))

\* alias_lookup.get(normalized): the canonical name, or <<>> for None.
lookup_get(alias_lookup, normalized) ==
    LET hits == {i \in 1..Len(alias_lookup) :
                    alias_lookup[i].key = normalized}
    IN  IF hits = {} THEN <<>> ELSE alias_lookup[SetMax(hits)].canonical

\* str(n) for a small number.
digit_text(n) == <<ToString(n)>>

OtherPrefix == <<"O", "t", "h", "e", "r", "_">>

RECURSIVE free_suffix(_, _, _)
free_suffix(other_name, values, suffix) ==
    IF (other_name \o <<"_">> \o digit_text(suffix)) \in values
    THEN free_suffix(other_name, values, suffix + 1)
    ELSE suffix

\* map_columns from column i on; canonical_map and other_map are the
\* sequences of their items in insertion order.
RECURSIVE map_columns_from(_, _, _, _, _)
map_columns_from(columns, alias_lookup, i, canonical_map, other_map) ==
    IF i > Len(columns)
    THEN [canonical_map |-> canonical_map, other_map |-> other_map]
    ELSE LET column == columns[i]
             normalized == normalize_header(column)
             canonical == lookup_get(alias_lookup, normalized)
         IN  IF canonical # <<>>
             THEN LET used == Cardinality(
                          {j \in 1..Len(canonical_map) :
                              canonical_map[j].canonical = canonical})
                      canonical_name ==
                          IF used > 0
                          THEN canonical \o <<"_">> \o digit_text(used)
                          ELSE canonical
                  IN  map_columns_from(columns, alias_lookup, i + 1,
                          Append(canonical_map,
                                 [column |-> column, name |-> canonical_name,
                                  canonical |-> canonical]),
                          other_map)
             ELSE LET safe == IF normalized # <<>> THEN normalized
                              ELSE <<"c", "o", "l", "u", "m", "n">>
                      other_name == OtherPrefix \o safe
                      values == {other_map[j].name : j \in 1..Len(other_map)}
                      name == IF other_name \in values
                              THEN other_name \o <<"_">> \o
                                   digit_text(free_suffix(other_name, values, 1))
                              ELSE other_name
                  IN  map_columns_from(columns, alias_lookup, i + 1,
                          canonical_map,
                          Append(other_map,
                                 [column |-> column, name |-> name]))

\* A map_columns with one counter for all canonical names: every hit after
\* the first of the table is numbered, whatever its canonical name.
RECURSIVE map_columns_one_counter_from(_, _, _, _)
map_columns_one_counter_from(columns, alias_lookup, i, canonical_map) ==
    IF i > Len(columns) THEN canonical_map
    ELSE LET canonical == lookup_get(alias_lookup, normalize_header(columns[i]))
             used == Len(canonical_map)
             canonical_name == IF used > 0
                               THEN canonical \o <<"_">> \o digit_text(used)
                               ELSE canonical
         IN  map_columns_one_counter_from(columns, alias_lookup, i + 1,
                 IF canonical = <<>> THEN canonical_map
                 ELSE Append(canonical_map,
                             [column |-> columns[i], name |-> canonical_name,
                              canonical |-> canonical]))

map_columns_one_counter(columns, alias_lookup) ==
    [canonical_map |->
         map_columns_one_counter_from(columns, alias_lookup, 1, <<>>),
     other_map |->
         map_columns_from(columns, alias_lookup, 1, <<>>, <<>>).other_map]

map_columns(columns, alias_lookup) ==
    map_columns_from(columns, alias_lookup, 1, <<>>, <<>>)

(***************************************************************************)
(* transform.py: prepare_dataframe                                         *)
(***************************************************************************)
\* coerce_float for one cell.  A float is modelled by its number of
\* hundredths; the cells of the model have at most two decimals.
DigitValue(c) == CHOOSE n \in 0..9 : ToString(n) = c

RECURSIVE int_value(_)
int_value(d) ==
    IF d = <<>> THEN 0
    ELSE 10 * int_value(SubSeq(d, 1, Len(d) - 1)) + DigitValue(d[Len(d)])

\* astype(str): the text of the cell; a null cell gives "nan".
as_str(value) == IF value.isnull THEN <<"n", "a", "n">> ELSE value.chars

\* str.replace(",", ".", regex=False)
replace_commas(t) == [i \in 1..Len(t) |-> IF t[i] = "," THEN "." ELSE t[i]]

\* str.replace(",", ".") that also drops the blanks inside the number.
replace_commas_drop_blanks(t) ==
    LET NotBlank(c) == c # " " IN replace_commas(SelectSeq(t, NotBlank))

\* pd.to_numeric(errors="coerce") on a text: blanks around the number are
\* skipped, digits with at most one decimal point are a number, anything
\* else gives NaN.
to_numeric(t) ==
    LET text == strip(t)
        points == {i \in 1..Len(text) : text[i] = "."}
        NotPoint(c) == c # "."
        digits == SelectSeq(text, NotPoint)
    IN  IF \/ digits = <<>>
           \/ \E i \in 1..Len(digits) : digits[i] \notin Digits
           \/ Cardinality(points) > 1
        THEN NaN
        ELSE IF points = {} THEN 100 * int_value(text)
        ELSE LET p == CHOOSE i \in points : TRUE
                 whole == SubSeq(text, 1, p - 1)
                 frac == SubSeq(text \o <<"0", "0">>, p + 1, p + 2)
             IN  100 * int_value(whole) + int_value(frac)

coerce_float(value) ==
    LET result == to_numeric(replace_commas(as_str(value)))
    IN  IF result = NaN THEN 0 ELSE result

\* _create_invalid_articul_df: the rows of the raw table whose business key
\* is flagged invalid, with their normalized value beside the raw one.
invalid_articuls(df) ==
    LET assigned == [i \in 1..Len(df) |->
            [c \in DOMAIN df[i] \cup {"articul_product_normalized"} |->
                IF c = "articul_product_normalized"
                THEN normalize_articul(df[i].articul) ELSE df[i][c]]]
    IN  TakeIdx(assigned,
                {i \in 1..Len(df) : invalid_articul(df[i].articul)}, 1)

prepare_never_raises(df, fail_on_invalid_articul) == FALSE

\* TRUE when prepare_dataframe raises ValueError (transform.py:99-100).
prepare_raises(df, fail_on_invalid_articul) ==
    fail_on_invalid_articul /\ invalid_articuls(df) # <<>>

\* The ValueError of transform.py:100 and what its message is formatted
\* from: f"Invalid articuls detected in file {context.file_path}" takes the
\* path of the file and no cell of the table.
invalid_articuls_error(df, file_path) ==
    [type |-> "ValueError", file_path |-> file_path, articuls |-> <<>>]

\* cli.py:160: the logged line is formatted from the path and the exception.
logged_error(file_path, exc) ==
    [file |-> file_path, exc |-> exc]

\* result.dataframe: one prepared row per raw row.  An id column of the raw
\* table (a header the alias table maps to id_key) is passed through.
prepared_row(r, platform, start_date) ==
    [id_key |-> r.id_key,
     articul_product |-> normalize_articul(r.articul),
     articul_store |-> r.articul_store,
     playground |-> platform,
     report_period_start |-> start_date,
     ordered |-> r.ordered,
     ordered_for_the_amount |-> coerce_float(r.amount)]

\* A transform that leaves the rows with an invalid business key out.
prepare_dataframe_excluding_invalid(df, platform, start_date) ==
    LET kept == TakeIdx(df, {i \in 1..Len(df) :
                                ~invalid_articul(df[i].articul)}, 1)
    IN  [i \in 1..Len(kept) |-> prepared_row(kept[i], platform, start_date)]

prepare_dataframe(df, platform, start_date) ==
    [i \in 1..Len(df) |-> prepared_row(df[i], platform, start_date)]

(***************************************************************************)
(* cli.py: load_week                                                       *)
(***************************************************************************)
\* list_platform_files: the files of a channel's input directory, sorted.
InputFiles(platform) ==
    IF platform = "OZ" THEN <<"a.xlsx", "b.xlsx">> ELSE <<"a.xlsx">>

RawArticuls ==
    {Null,
     Text(<<"1", "2", "3", "4", " ", "5", "6", "7", " ", "8", "9">>),
     Text(<<"a", "b", "c">>)}

\* The rows an input file may hold: a valid code with either quantity, a
\* blank code, an invalid code, and a valid code in a row that carries an id.
RawRows ==
    {r \in [articul : RawArticuls, articul_store : Stores, ordered : Ordereds,
            amount : {Text(<<"1", "2", ",", "5">>)}, id_key : {NaN, 1}] :
        (normalize_articul(r.articul) = None \/ r.id_key # NaN)
            => (r.ordered = 10 /\ ~(r.id_key # NaN /\
                                    normalize_articul(r.articul) = None))}

\* What read_input_table gives for a file: a table, possibly empty.
RawTables == SeqUpTo(RawRows, MaxRows)

\* result.other_columns of a file: empty, or the one header "Promo" that
\* the alias table of channel OZ does not know.
OtherColumns(platform) ==
    IF platform = "OZ" THEN {<<>>, <<<<"Other_promo", "Promo">>>>} ELSE {<<>>}

PlatformMetrics ==
    [files_processed |-> 0, rows_read |-> 0, rows_loaded |-> 0,
     duplicates |-> 0, invalid_articuls |-> 0, new_columns |-> 0]

NoFrames == [p \in ChannelSet |-> <<>>]

RunIdle ==
    [pc |-> "idle", runs |-> 0, start |-> 1, fail_on_invalid_articul |-> FALSE,
     dry_run |-> FALSE, selected_platforms |-> <<>>, ch |-> 1, fi |-> 1,
     platform_frames |-> <<>>, platform_data |-> NoFrames,
     base_sheets |-> NoFrames,
     stats |-> [p \in ChannelSet |-> PlatformMetrics],
     exit_code |-> 0, written |-> {}, report |-> <<>>,
     invalid_seen |-> FALSE,
     base_before |-> NoFrames, registry_before |-> NoSheets]

\* A merge that lets the batch win: the historical rows whose key the batch
\* holds are dropped and the whole batch is appended.
merge_channel_overwriting(new_df, existing_df) ==
    LET kept == SelectSeq(existing_df, LAMBDA r : KeyOf(r) \notin Keys(new_df))
        added == assign_incremental_ids(drop_duplicates_last(new_df), kept)
    IN  [sheet |-> kept \o added, duplicates |-> 0,
         rows_loaded |-> Len(added)]

\* A merge loop that counts every row of the batch as loaded.
merge_channel_loading_batch(new_df, existing_df) ==
    LET d == dedupe_against_existing(new_df, existing_df)
        deduped == assign_incremental_ids(d.deduped, existing_df)
    IN  [sheet |-> existing_df \o deduped,
         duplicates |-> Len(d.duplicates),
         rows_loaded |-> Len(new_df)]

\* The merge loop (cli.py:184-196) for one channel: the sheet after it and
\* what it adds to the channel's metrics.
merge_channel(new_df, existing_df) ==
    IF new_df = <<>>
    THEN [sheet |-> existing_df, duplicates |-> 0, rows_loaded |-> 0]
    ELSE LET d == dedupe_against_existing(new_df, existing_df)
             deduped == assign_incremental_ids(d.deduped, existing_df)
         IN  [sheet |-> existing_df \o deduped,
              duplicates |-> Len(d.duplicates),
              rows_loaded |-> Len(deduped)]

(***************************************************************************)
(* Inputs of the functions under test.                                     *)
(***************************************************************************)
\* Prepared rows of one channel and one run, ids not yet assigned.
BatchRows ==
    [id_key : {NaN}, articul_product : {None, "1234-567-89"},
     articul_store : Stores, playground : {"OZ"},
     report_period_start : Starts, ordered : Ordereds]

\* Rows of a stored history: they carry ids.
HistRows(ids) ==
    [id_key : ids, articul_product : {None, "1234-567-89"},
     articul_store : Stores, playground : {"OZ"},
     report_period_start : Starts, ordered : {30}]

DedupeIdle == [new_df |-> <<>>, existing_df |-> <<>>, deduped |-> <<>>,
               duplicates |-> <<>>, called |-> FALSE]

IdsIdle == [df |-> <<>>, existing_df |-> <<>>, df_after |-> <<>>,
            result |-> <<>>, called |-> FALSE]

FnIdle == [called |-> FALSE]

\* A post-dedup batch whose rows carry the given id cells: one key per row.
IdBatch(ids) ==
    [i \in 1..Len(ids) |->
        [id_key |-> ids[i], articul_product |-> "1234-567-89",
         articul_store |-> "store", playground |-> "OZ",
         report_period_start |-> i, ordered |-> 10]]

\* A stored history whose rows carry the given ids.
IdHist(ids) ==
    [i \in 1..Len(ids) |->
        [id_key |-> ids[i], articul_product |-> "1234-567-90",
         articul_store |-> "store", playground |-> "OZ",
         report_period_start |-> i, ordered |-> 30]]

Distinct(s) == \A i, j \in 1..Len(s) : i # j => s[i] # s[j]

BatchIdCells == {NaN, 0, 1, 2, 3}
HistIds == {1, 2, 3}

(***************************************************************************)
(* SpecDedupe: dedupe_against_existing applied to every batch and history. *)
(***************************************************************************)
InitDedupe ==
    /\ dd \in {[new_df |-> b, existing_df |-> h, deduped |-> <<>>,
                duplicates |-> <<>>, called |-> FALSE] :
                  b \in SeqUpTo(BatchRows, MaxBatch),
                  h \in {x \in SeqUpTo(HistRows({1}), MaxHist) : UniqueKeys(x)}}
    /\ ia = IdsIdle
    /\ fn = FnIdle
    /\ registry = NoSheets
    /\ registry_file = NoSheets
    /\ rc = CallsIdle
    /\ base = NoFrames
    /\ run = RunIdle

CallDedupe ==
    /\ ~dd.called
    /\ LET r == dedupe_against_existing(dd.new_df, dd.existing_df)
       IN  dd' = [dd EXCEPT !.deduped = r.deduped, !.duplicates = r.duplicates,
                            !.called = TRUE]
    /\ UNCHANGED <<ia, registry, registry_file, rc, base, run, fn>>

NextDedupe == CallDedupe

SpecDedupe == InitDedupe /\ [][NextDedupe]_vars

\* Position in the batch of the last row carrying key k.
LastPos(df, k) == SetMax({i \in 1..Len(df) : KeyOf(df[i]) = k})

\* s is made of last occurrences of df, in the order they have in df.
LastOccurrencesInOrder(s, df) ==
    /\ \A i \in 1..Len(s) : s[i] = df[LastPos(df, KeyOf(s[i]))]
    /\ \A i, j \in 1..Len(s) :
          i < j => LastPos(df, KeyOf(s[i])) < LastPos(df, KeyOf(s[j]))

\* C3: the two results of dedupe_against_existing are disjoint and together
\* hold exactly one row of the batch per distinct composite key of the batch.
C3_Partition ==
    dd.called =>
        LET both == dd.deduped \o dd.duplicates
        IN  /\ Range(dd.deduped) \cap Range(dd.duplicates) = {}
            /\ Keys(dd.deduped) \cap Keys(dd.duplicates) = {}
            /\ Range(both) \subseteq Range(dd.new_df)
            /\ Keys(both) = Keys(dd.new_df)
            /\ UniqueKeys(both)
            /\ Len(both) = Cardinality(Keys(dd.new_df))

C3_Witness ==
    /\ dd.called
    /\ dd.deduped # <<>>
    /\ dd.duplicates # <<>>
    /\ Len(dd.new_df) > Len(dd.deduped) + Len(dd.duplicates)

\* C4: a key of the batch ends in the duplicate set iff the history holds it,
\* and in the new set otherwise; an empty history gives no duplicates.
C4_Routing ==
    dd.called =>
        /\ \A k \in Keys(dd.new_df) :
              /\ (k \in Keys(dd.duplicates)) <=> (k \in Keys(dd.existing_df))
              /\ (k \in Keys(dd.deduped)) <=> (k \notin Keys(dd.existing_df))
        /\ dd.existing_df = <<>> =>
              /\ dd.duplicates = <<>>
              /\ Keys(dd.deduped) = Keys(dd.new_df)

C4_Witness ==
    /\ dd.called
    /\ dd.deduped # <<>>
    /\ \E i \in 1..Len(dd.duplicates) : dd.duplicates[i].articul_product = None
    /\ \E i \in 1..Len(dd.existing_df) :
          KeyOf(dd.existing_df[i]) \notin Keys(dd.new_df)

\* C5: of the rows of a batch sharing a key exactly the last one is kept, and
\* the kept rows keep their relative order.
C5_KeepLast ==
    dd.called =>
        /\ LastOccurrencesInOrder(dd.deduped, dd.new_df)
        /\ LastOccurrencesInOrder(dd.duplicates, dd.new_df)
        /\ Len(dd.deduped) + Len(dd.duplicates) = Cardinality(Keys(dd.new_df))

C5_Witness ==
    /\ dd.called
    /\ Len(dd.deduped) = 2
    /\ \E i, j \in 1..Len(dd.new_df) :
          /\ i < j
          /\ KeyOf(dd.new_df[i]) = KeyOf(dd.new_df[j])
          /\ dd.new_df[i].ordered # dd.new_df[j].ordered
          /\ dd.deduped[1] = dd.new_df[j]

(***************************************************************************)
(* SpecIds: assign_incremental_ids applied to every batch and history.     *)
(***************************************************************************)
InitIds ==
    /\ ia \in {[df |-> IdBatch(b), existing_df |-> IdHist(h), df_after |-> <<>>,
                result |-> <<>>, called |-> FALSE] :
                  b \in SeqUpTo(BatchIdCells, MaxBatch),
                  h \in {x \in SeqUpTo(HistIds, MaxHist) : Distinct(x)}}
    /\ dd = DedupeIdle
    /\ registry = NoSheets
    /\ registry_file = NoSheets
    /\ rc = CallsIdle
    /\ base = NoFrames
    /\ run = RunIdle
    /\ fn = FnIdle

\* The call works on df.copy() (transform.py:119): the caller's frame stays
\* as it was, the copy with the ids filled in is returned.
CallAssign ==
    /\ ~ia.called
    /\ ia' = [ia EXCEPT !.df_after = ia.df,
                        !.result = assign_incremental_ids(ia.df, ia.existing_df),
                        !.called = TRUE]
    /\ UNCHANGED <<dd, registry, registry_file, rc, base, run, fn>>

NextIds == CallAssign

SpecIds == InitIds /\ [][NextIds]_vars

\* Rows of the argument whose id is missing or zero / carried.
MissingRows == {i \in 1..Len(ia.df) : ia.df[i].id_key \in {NaN, 0}}
CarriedRows == (1..Len(ia.df)) \ MissingRows

\* C6: the rows with a missing or zero id get next_id, next_id + 1, ... in row
\* order, next_id being max(existing ids) + 1 or 1 for an empty history; these
\* ids exceed every existing id and are pairwise distinct.
C6_ConsecutiveIds ==
    ia.called =>
        LET next_id == IF ia.existing_df = <<>> THEN 1
                       ELSE SetMax(IdsOf(ia.existing_df)) + 1
        IN  /\ Len(ia.result) = Len(ia.df)
            /\ \A i \in MissingRows :
                  /\ ia.result[i].id_key =
                        next_id + Cardinality({j \in MissingRows : j < i})
                  /\ \A e \in IdsOf(ia.existing_df) : ia.result[i].id_key > e
            /\ \A i, j \in MissingRows :
                  i # j => ia.result[i].id_key # ia.result[j].id_key

C6_Witness ==
    /\ ia.called
    /\ Len(ia.existing_df) = 2
    /\ Cardinality(MissingRows) >= 2
    /\ CarriedRows # {}
    /\ \E i \in MissingRows : ia.df[i].id_key = 0
    /\ \E i \in MissingRows : ia.df[i].id_key = NaN

\* C7: a row that carries a non-zero id comes back unchanged, and the frame
\* passed in is not mutated.
C7_CarriedIdsKept ==
    ia.called =>
        /\ Len(ia.result) = Len(ia.df)
        /\ \A i \in CarriedRows : ia.result[i] = ia.df[i]
        /\ ia.df_after = ia.df

C7_Witness ==
    /\ ia.called
    /\ CarriedRows # {}
    /\ MissingRows # {}
    /\ ia.result # ia.df
    /\ ia.existing_df # <<>>

\* C8: after the call on a partially-id-assigned batch no two rows of the
\* batch share an id, and no newly assigned id equals an id carried by a row
\* of the batch or of the history.
C8_ReprocessingSafe ==
    (ia.called /\ CarriedRows # {} /\ MissingRows # {}) =>
        /\ \A i, j \in 1..Len(ia.result) :
              i # j => ia.result[i].id_key # ia.result[j].id_key
        /\ \A i \in MissingRows :
              /\ \A j \in CarriedRows : ia.result[i].id_key # ia.df[j].id_key
              /\ ia.result[i].id_key \notin IdsOf(ia.existing_df)

(***************************************************************************)
(* SpecRegistry: a ColumnRegistry object under any sequence of register    *)
(* and flush calls; constructing a new object on the same path starts a    *)
(* new registry from the workbook.                                         *)
(***************************************************************************)
InitRegistry ==
    /\ registry = NoSheets
    /\ registry_file = NoSheets
    /\ rc = CallsIdle
    /\ dd = DedupeIdle
    /\ ia = IdsIdle
    /\ fn = FnIdle
    /\ base = NoFrames
    /\ run = RunIdle

Register ==
    \E platform \in ChannelSet, column_mapping \in ColumnMappings,
       seen \in Sightings :
        LET r == register(registry, platform, column_mapping,
                          seen.file_path, seen.today)
            given == {<<platform, column_mapping[i][2]>> :
                         i \in 1..Len(column_mapping)}
        IN  /\ rc.n < MaxCalls
            /\ registry' = r.data
            /\ rc' = [rc EXCEPT
                        !.n = rc.n + 1,
                        !.passed = rc.passed \cup given,
                        !.last = [op |-> "register", platform |-> platform,
                                  column_mapping |-> column_mapping,
                                  ret |-> r.ret,
                                  added |-> Len(r.data[platform])
                                              - Len(registry[platform]),
                                  repeated |-> given \subseteq rc.passed,
                                  fresh |-> given \cap (rc.passed \cup rc.loaded)
                                              = {}]]
            /\ UNCHANGED <<registry_file, dd, ia, base, run, fn>>

Flush ==
    /\ registry_file' = flush(registry, registry_file)
    /\ rc' = [rc EXCEPT !.flushed = TRUE, !.last = NoCall]
    /\ UNCHANGED <<registry, dd, ia, base, run, fn>>

Construct ==
    \E readable \in BOOLEAN :
        /\ registry' = post_init(registry_file, readable)
        /\ rc' = [CallsIdle EXCEPT !.n = rc.n,
                                    !.loaded = RegistryPairs(registry')]
        /\ UNCHANGED <<registry_file, dd, ia, base, run, fn>>

NextRegistry == Register \/ Flush \/ Construct

SpecRegistry == InitRegistry /\ [][NextRegistry]_vars

IsPrefix(a, b) == Len(a) <= Len(b) /\ SubSeq(b, 1, Len(a)) = a

UniqueOriginals(sheet) ==
    \A i, j \in 1..Len(sheet) :
        i # j => sheet[i].original_name # sheet[j].original_name

\* C9: register returns the number of entries it appended; called with one
\* (channel, raw header) pair it returns 1 when the pair was neither loaded
\* with the registry nor passed before, and 0 when the pair was passed before.
C9_RegisteredCount ==
    rc.last.op = "register" =>
        /\ rc.last.ret = rc.last.added
        /\ Len(rc.last.column_mapping) = 1 =>
              /\ rc.last.fresh => rc.last.ret = 1
              /\ rc.last.repeated => rc.last.ret = 0

C9_Witness ==
    /\ rc.last.op = "register"
    /\ Len(rc.last.column_mapping) = 1
    /\ rc.last.repeated
    /\ rc.last.ret = 0
    /\ rc.loaded = {}
    /\ rc.flushed
    /\ Len(registry_file[rc.last.platform]) = 1

\* C10: a register call leaves at most one entry per (channel, raw header)
\* pair and changes no entry recorded before it.
C10_WriteOnce ==
    [][rc'.n = rc.n + 1 =>
          \A p \in ChannelSet :
              /\ UniqueOriginals(registry'[p])
              /\ IsPrefix(registry[p], registry'[p])]_vars

(***************************************************************************)
(* Spec: load-week runs, one after the other, on a base workbook that does *)
(* not exist at first.  A run reads the files of each selected channel in  *)
(* turn, merges each channel's batch into its history and writes.          *)
(***************************************************************************)
Init ==
    /\ base = NoFrames
    /\ run = RunIdle
    /\ registry = NoSheets
    /\ registry_file = NoSheets
    /\ rc = CallsIdle
    /\ dd = DedupeIdle
    /\ ia = IdsIdle
    /\ fn = FnIdle

CurrentPlatform == run.selected_platforms[run.ch]

\* cli.py:98-127 and the head of the channel loop for the first channel.
StartRun ==
    /\ run.pc \in {"idle", "done"}
    /\ run.runs < MaxRuns
    /\ \E start \in Starts, fail_on_invalid_articul \in BOOLEAN,
          dry_run \in BOOLEAN,
          selected \in {Channels} \cup {<<p>> : p \in ChannelSet} :
          run' = [RunIdle EXCEPT
                    !.pc = "files", !.runs = run.runs + 1, !.start = start,
                    !.fail_on_invalid_articul = fail_on_invalid_articul,
                    !.dry_run = dry_run, !.selected_platforms = selected,
                    !.base_before = base, !.registry_before = registry_file,
                    !.stats[selected[1]].files_processed =
                        Len(InputFiles(selected[1]))]
    /\ registry' = post_init(registry_file, TRUE)
    /\ UNCHANGED <<base, registry_file, rc, dd, ia, fn>>

\* cli.py:139-171: the loop body for the next file of the current channel.
ReadFile ==
    /\ run.pc = "files"
    /\ run.fi <= Len(InputFiles(CurrentPlatform))
    /\ \/ \* read_input_table raised: the file is skipped
          /\ run' = [run EXCEPT !.fi = run.fi + 1]
          /\ UNCHANGED registry
       \/ \* the file is empty: skipped
          /\ run' = [run EXCEPT !.fi = run.fi + 1]
          /\ UNCHANGED registry
       \/ \E df \in RawTables \ {<<>>} :
             /\ prepare_raises(df, run.fail_on_invalid_articul)
             /\ \* ValueError under the strict flag: typer.Exit(code=1)
                run' = [run EXCEPT
                          !.stats[CurrentPlatform].rows_read = @ + Len(df),
                          !.invalid_seen = TRUE,
                          !.pc = "done", !.exit_code = 1]
             /\ UNCHANGED registry
       \/ \E df \in RawTables \ {<<>>} :
             /\ \* prepare_dataframe raised a ValueError of pandas
                \/ /\ run.fail_on_invalid_articul
                   /\ run' = [run EXCEPT
                          !.stats[CurrentPlatform].rows_read = @ + Len(df),
                          !.pc = "done", !.exit_code = 1]
                \/ /\ ~run.fail_on_invalid_articul
                   /\ run' = [run EXCEPT
                          !.stats[CurrentPlatform].rows_read = @ + Len(df),
                          !.fi = run.fi + 1]
             /\ UNCHANGED registry
       \/ \E df \in RawTables \ {<<>>} :
             /\ \* prepare_dataframe raised an exception that is not a
                \* ValueError: "except ValueError" lets it through, it ends
                \* load_week and the process exits with a non-zero code
                run' = [run EXCEPT
                          !.stats[CurrentPlatform].rows_read = @ + Len(df),
                          !.pc = "done", !.exit_code = 1]
             /\ UNCHANGED registry
       \/ \E df \in RawTables \ {<<>>}, other_columns \in OtherColumns(CurrentPlatform) :
             /\ ~prepare_raises(df, run.fail_on_invalid_articul)
             /\ LET r == register(registry, CurrentPlatform, other_columns,
                                  InputFiles(CurrentPlatform)[run.fi], run.runs)
                    result == prepare_dataframe(df, CurrentPlatform, run.start)
                IN  /\ registry' = r.data
                    /\ run' = [run EXCEPT
                          !.stats[CurrentPlatform].rows_read = @ + Len(df),
                          !.stats[CurrentPlatform].new_columns = @ + r.ret,
                          !.stats[CurrentPlatform].invalid_articuls =
                              @ + Len(invalid_articuls(df)),
                          !.invalid_seen = @ \/ invalid_articuls(df) # <<>>,
                          !.platform_frames = @ \o result,
                          !.fi = run.fi + 1]
    /\ UNCHANGED <<base, registry_file, rc, dd, ia, fn>>

\* cli.py:172-175: the channel's batch is the concatenation of its frames;
\* then the next channel, or the end of the loop.
EndChannel ==
    /\ run.pc = "files"
    /\ run.fi > Len(InputFiles(CurrentPlatform))
    /\ LET done == [run EXCEPT
                      !.platform_data[CurrentPlatform] = run.platform_frames,
                      !.platform_frames = <<>>, !.fi = 1, !.ch = run.ch + 1]
       IN  run' = IF done.ch > Len(run.selected_platforms)
                  THEN [done EXCEPT !.pc = "merge"]
                  ELSE [done EXCEPT
                          !.stats[run.selected_platforms[done.ch]]
                              .files_processed =
                                  Len(InputFiles(run.selected_platforms[done.ch]))]
    /\ UNCHANGED <<base, registry, registry_file, rc, dd, ia, fn>>

\* cli.py:177-196: load_base_sheets, then the merge loop over platform_data.
Merge ==
    /\ run.pc = "merge"
    /\ LET merged == [p \in ChannelSet |->
                         merge_channel(run.platform_data[p], base[p])]
       IN  run' = [run EXCEPT
                     !.pc = "finish",
                     !.base_sheets = [p \in ChannelSet |-> merged[p].sheet],
                     !.stats = [p \in ChannelSet |->
                         [run.stats[p] EXCEPT
                             !.duplicates = @ + merged[p].duplicates,
                             !.rows_loaded = @ + merged[p].rows_loaded]]]
    /\ UNCHANGED <<base, registry, registry_file, rc, dd, ia, fn>>

\* report.py:81-85 over the channels of default_platforms, in their order:
\* the non-empty frames, each tagged with its channel when it has no
\* playground column, one after the other.
has_column(df, column) == df # <<>> /\ column \in DOMAIN df[1]

assign_playground(df, platform) ==
    [i \in 1..Len(df) |->
        [c \in DOMAIN df[i] \cup {"playground"} |->
            IF c = "playground" THEN platform ELSE df[i][c]]]

RECURSIVE concat_frames(_, _, _)
concat_frames(platform_frames, platforms, i) ==
    IF i > Len(platforms) THEN <<>>
    ELSE LET df == platform_frames[platforms[i]]
             frame == IF has_column(df, "playground") THEN df
                      ELSE assign_playground(df, platforms[i])
         IN  frame \o concat_frames(platform_frames, platforms, i + 1)

build_report_first_channel(platform_frames) ==
    concat_frames(platform_frames, <<Channels[1]>>, 1)

build_report(platform_frames) == concat_frames(platform_frames, Channels, 1)

\* A run that goes on to the writes whatever dry_run says.
dry_run_ignored(dry_run) == FALSE

\* cli.py:231-233: under dry_run load_week returns before the writes.
returns_before_writes(dry_run) == dry_run

\* The artifacts a run writes (cli.py:235-268); the parquet export with
\* enable_parquet at its default and without --no-export-parquet, when the
\* report has rows.
artifacts(stats, report_df) ==
    {"report", "base", "registry", "summary"}
        \cup (IF report_df # <<>> THEN {"parquet"} ELSE {})
        \cup (IF \E p \in ChannelSet : stats[p].invalid_articuls > 0
              THEN {"invalid_articuls"} ELSE {})
        \cup (IF \E p \in ChannelSet : stats[p].duplicates > 0
              THEN {"duplicates"} ELSE {})

\* cli.py:198-272: the summary, then nothing more under dry_run, or the
\* report, the base workbook, the quarantine tables, the registry and the
\* run summary are written.
Finish ==
    /\ run.pc = "finish"
    /\ \/ /\ returns_before_writes(run.dry_run)
          /\ run' = [run EXCEPT !.pc = "done",
                                !.report = build_report(run.base_sheets)]
          /\ UNCHANGED <<base, registry_file>>
       \/ /\ ~returns_before_writes(run.dry_run)
          /\ base' = run.base_sheets
          /\ registry_file' = flush(registry, registry_file)
          /\ run' = [run EXCEPT
                       !.pc = "done",
                       !.report = build_report(run.base_sheets),
                       !.written = artifacts(run.stats,
                                             build_report(run.base_sheets))]
    /\ UNCHANGED <<registry, rc, dd, ia, fn>>

Next == StartRun \/ ReadFile \/ EndChannel \/ Merge \/ Finish

Spec == Init /\ [][Next]_vars

(***************************************************************************)
(* SpecMerge: the merge loop of load_week (cli.py:184-196) applied run     *)
(* after run to one channel, each run with any batch of its week.          *)
(***************************************************************************)
\* The batches prepare_dataframe can hand over for a channel in one run: all
\* rows carry the run's week and the channel.
PreparedRows(platform, start_date) ==
    [id_key : {NaN}, articul_product : {None, "1234-567-89"},
     articul_store : Stores, playground : {platform},
     report_period_start : {start_date}, ordered : Ordereds]

InitMerge ==
    /\ base = NoFrames
    /\ run = RunIdle
    /\ registry = NoSheets
    /\ registry_file = NoSheets
    /\ rc = CallsIdle
    /\ dd = DedupeIdle
    /\ ia = IdsIdle
    /\ fn = FnIdle

LoadBatch ==
    \E start_date \in Starts :
      \E new_df \in SeqUpTo(PreparedRows("OZ", start_date), MaxWeekRows) :
        LET d == dedupe_against_existing(new_df, base["OZ"])
        IN  /\ base' = [base EXCEPT
                          !["OZ"] = merge_channel(new_df, base["OZ"]).sheet]
            /\ dd' = [DedupeIdle EXCEPT !.duplicates = d.duplicates,
                                        !.called = TRUE]
            /\ UNCHANGED <<run, registry, registry_file, rc, ia, fn>>

NextMerge == LoadBatch

SpecMerge == InitMerge /\ [][NextMerge]_vars

Appended(p) == SubSeq(run.base_sheets[p], Len(base[p]) + 1,
                      Len(run.base_sheets[p]))

\* C2: the ids of a channel's history are pairwise distinct, and the rows a
\* run appends carry ids greater than every id the history held before it.
C2_IdsNeverReused ==
    \A p \in ChannelSet :
        /\ \A i, j \in 1..Len(base[p]) :
              i # j => base[p][i].id_key # base[p][j].id_key
        /\ run.pc = "finish" =>
              \A i \in 1..Len(Appended(p)), j \in 1..Len(base[p]) :
                  Appended(p)[i].id_key > base[p][j].id_key

\* C11: under the strict flag, once a processed file has yielded an invalid
\* business key the run has ended with a non-zero exit code and has written
\* nothing: the base workbook and the registry file are as they were before
\* the run, and no report, quarantine table or run summary was written.
C11_StrictAbort ==
    (run.fail_on_invalid_articul /\ run.invalid_seen) =>
        /\ run.pc = "done"
        /\ run.exit_code # 0
        /\ run.written = {}
        /\ run.report = <<>>
        /\ base = run.base_before
        /\ registry_file = run.registry_before

\* A second run, on a history and a registry file written by the first, is
\* aborted by its second file after its first file was processed and its
\* unknown header registered in memory.
C11_Witness ==
    /\ run.fail_on_invalid_articul /\ run.invalid_seen
    /\ run.runs = 2
    /\ run.fi = 2
    /\ run.platform_frames # <<>>
    /\ base["OZ"] # <<>>
    /\ registry # registry_file

\* C12: without the strict flag no failure on a file ends the run: the run
\* never stops with a non-zero exit code.
C12_NonStrictNeverAborts ==
    ~run.fail_on_invalid_articul => run.exit_code = 0

\* The first row of channel p's frame in the report.
Offset(p) ==
    IF p = Channels[1] THEN 0 ELSE Len(run.base_sheets[Channels[1]])

\* C19: the report of a completed run is made of the rows of every
\* configured channel's history after the merge, in channel order, and each
\* of its rows carries the tag of the channel whose history it came from.
C19_ReportRows ==
    (run.pc = "done" /\ run.exit_code = 0) =>
        /\ Len(run.report) =
              Len(run.base_sheets["OZ"]) + Len(run.base_sheets["WB"])
        /\ \A p \in ChannelSet :
              \A i \in 1..Len(run.base_sheets[p]) :
                  /\ run.report[Offset(p) + i] = run.base_sheets[p][i]
                  /\ run.report[Offset(p) + i].playground = p

\* A run of channel OZ alone, on a workbook that already holds rows of both
\* channels: the report has the rows of WB as well.
C19_Witness ==
    /\ run.pc = "done" /\ run.exit_code = 0
    /\ run.runs = 2
    /\ run.selected_platforms = <<"OZ">>
    /\ run.stats["OZ"].rows_loaded > 0
    /\ Len(run.base_sheets["OZ"]) = 2
    /\ run.base_sheets["WB"] # <<>>
    /\ Len(run.report) = 3

(***************************************************************************)
(* SpecRerun: load-week runs on one channel (the merge loop of             *)
(* cli.py:184-196); after any number of earlier runs, one run is made      *)
(* twice over the same batch, the second time on the history the first     *)
(* left.                                                                   *)
(***************************************************************************)
RerunIdle == [called |-> FALSE, phase |-> "idle", new_df |-> <<>>,
              first_loaded |-> 0, sheet_first |-> <<>>,
              deduped |-> <<>>, duplicates |-> <<>>, rows_loaded |-> 0]

InitRerun ==
    /\ base = NoFrames
    /\ fn = RerunIdle
    /\ run = RunIdle
    /\ registry = NoSheets
    /\ registry_file = NoSheets
    /\ rc = CallsIdle
    /\ dd = DedupeIdle
    /\ ia = IdsIdle

\* A run of some week that is not repeated.
EarlierRun ==
    /\ fn.phase = "idle"
    /\ \E start_date \in Starts :
         \E new_df \in SeqUpTo(PreparedRows("OZ", start_date), MaxWeekRows) :
           base' = [base EXCEPT
                      !["OZ"] = merge_channel(new_df, base["OZ"]).sheet]
    /\ UNCHANGED <<fn, run, registry, registry_file, rc, dd, ia>>

\* The first of the two runs over the same input.
FirstRun ==
    /\ fn.phase = "idle"
    /\ \E start_date \in Starts :
         \E new_df \in SeqUpTo(PreparedRows("OZ", start_date), MaxWeekRows) :
           LET m == merge_channel(new_df, base["OZ"])
           IN  /\ base' = [base EXCEPT !["OZ"] = m.sheet]
               /\ fn' = [RerunIdle EXCEPT
                            !.called = TRUE, !.phase = "first",
                            !.new_df = new_df,
                            !.first_loaded = m.rows_loaded,
                            !.sheet_first = m.sheet]
    /\ UNCHANGED <<run, registry, registry_file, rc, dd, ia>>

\* The second run: the same batch, the history as the first run wrote it.
SecondRun ==
    /\ fn.phase = "first"
    /\ LET d == dedupe_against_existing(fn.new_df, base["OZ"])
           m == merge_channel(fn.new_df, base["OZ"])
       IN  /\ base' = [base EXCEPT !["OZ"] = m.sheet]
           /\ fn' = [fn EXCEPT !.phase = "second",
                               !.deduped = d.deduped,
                               !.duplicates = d.duplicates,
                               !.rows_loaded = m.rows_loaded]
    /\ UNCHANGED <<run, registry, registry_file, rc, dd, ia>>

NextRerun == EarlierRun \/ FirstRun \/ SecondRun

SpecRerun == InitRerun /\ [][NextRerun]_vars

Tokens ==
    {<<"1", "2", "3", "4">>, <<"5", "6", "7">>, <<"8", "9">>,
     <<" ">>, <<"-">>, <<"a">>, <<"U+00B2">>, <<"U+00E9">>}

RECURSIVE Flatten(_)
Flatten(ts) == IF ts = <<>> THEN <<>> ELSE Head(ts) \o Flatten(Tail(ts))

ArticulCells ==
    {Null} \cup {Text(Flatten(ts)) : ts \in SeqUpTo(Tokens, MaxTokens)}

InitArticul ==
    /\ fn \in {[called |-> FALSE, value |-> v, normalized |-> None,
                 invalid |-> FALSE] : v \in ArticulCells}
    /\ base = NoFrames
    /\ run = RunIdle
    /\ registry = NoSheets
    /\ registry_file = NoSheets
    /\ rc = CallsIdle
    /\ dd = DedupeIdle
    /\ ia = IdsIdle

CallNormalize ==
    /\ ~fn.called
    /\ fn' = [fn EXCEPT !.called = TRUE,
                        !.normalized = normalize_articul(fn.value),
                        !.invalid = invalid_articul(fn.value)]
    /\ UNCHANGED <<base, run, registry, registry_file, rc, dd, ia>>

NextArticul == CallNormalize

SpecArticul == InitArticul /\ [][NextArticul]_vars

\* The decimal digits among the characters of the cell, in order.
DigitsOf(value) == SelectSeq(value.chars, IsDigit)

\* C14: a cell with at least nine decimal digits among its characters gives
\* its first nine digits as DDDD-DDD-DD, whatever else it holds; a cell with
\* fewer than nine gives no code.
C14_FirstNineDigits ==
    (fn.called /\ ~fn.value.isnull) =>
        IF Len(DigitsOf(fn.value)) >= 9
        THEN fn.normalized = format_articul(SubSeq(DigitsOf(fn.value), 1, 9))
        ELSE fn.normalized = None

\* C15: a cell is flagged invalid exactly when it gave no code, is not null
\* and holds a character other than a blank.
C15_InvalidFlag ==
    fn.called =>
        (fn.invalid <=>
            /\ fn.normalized = None
            /\ ~fn.value.isnull
            /\ \E i \in 1..Len(fn.value.chars) : fn.value.chars[i] # " ")

\* A cell of blanks only, not flagged; the same holds of the null cell and
\* of the cells that gave a code, and a cell of text without a code is
\* flagged.
C15_Witness ==
    /\ fn.called
    /\ fn.value = Text(<<" ", " ">>)
    /\ fn.normalized = None
    /\ ~fn.invalid

(***************************************************************************)
(* SpecHeaders: map_columns applied to the headers of a raw table, with    *)
(* the lookup build_alias_lookup makes of an alias table.                  *)
(***************************************************************************)
CanonicalNames == {<<"q">>, <<"s">>}

AliasNames == {<<"Q">>, <<"S">>, <<"n">>}

\* The headers a raw table may have: canonical names, aliases, and headers
\* no alias table knows.
RawHeaders ==
    CanonicalNames \cup AliasNames \cup {<<"x">>, <<"x", "-">>, <<"-">>}

\* The alias tables: one or two canonical names, each with its aliases.
AliasTables ==
    {t \in SeqUpTo([canonical : CanonicalNames,
                    aliases : SeqUpTo(AliasNames, MaxAliases)], 2) :
        /\ t # <<>>
        /\ \A i, j \in 1..Len(t) : i # j => t[i].canonical # t[j].canonical}

InitHeaders ==
    /\ fn \in {[called |-> FALSE, alias_map |-> t, columns |-> cs,
                 canonical_map |-> <<>>, other_map |-> <<>>] :
                   t \in AliasTables,
                   cs \in {x \in SeqUpTo(RawHeaders, MaxColumns) : Distinct(x)}}
    /\ base = NoFrames
    /\ run = RunIdle
    /\ registry = NoSheets
    /\ registry_file = NoSheets
    /\ rc = CallsIdle
    /\ dd = DedupeIdle
    /\ ia = IdsIdle

\* transform.py:52-53: the lookup is built, then the columns are mapped.
CallMapColumns ==
    /\ ~fn.called
    /\ LET r == map_columns(fn.columns, build_alias_lookup(fn.alias_map))
       IN  fn' = [fn EXCEPT !.called = TRUE,
                           !.canonical_map = r.canonical_map,
                           !.other_map = r.other_map]
    /\ UNCHANGED <<base, run, registry, registry_file, rc, dd, ia>>

NextHeaders == CallMapColumns

SpecHeaders == InitHeaders /\ [][NextHeaders]_vars

\* The entries of the alias table whose canonical name is the one header.
EntriesOfHeader ==
    {k \in 1..Len(fn.alias_map) :
        fn.columns = <<fn.alias_map[k].canonical>>}

\* The header was mapped to itself and to nothing else.
MappedToItself ==
    /\ fn.other_map = <<>>
    /\ Len(fn.canonical_map) = 1
    /\ fn.canonical_map[1].column = fn.columns[1]
    /\ fn.canonical_map[1].name = fn.columns[1]

\* No entry after entry k has a name or an alias that normalizes to the
\* same text as the canonical name of entry k.
NoLaterCollision(k) ==
    \A j \in (k + 1)..Len(fn.alias_map) :
        /\ normalize_header(fn.alias_map[j].canonical)
              # normalize_header(fn.alias_map[k].canonical)
        /\ \A a \in 1..Len(fn.alias_map[j].aliases) :
              normalize_header(fn.alias_map[j].aliases[a])
                  # normalize_header(fn.alias_map[k].canonical)

\* C16 as stated: whatever the alias table, a raw table whose one header is
\* a canonical name of the table has it mapped to itself.
C16_CanonicalUnchanged ==
    (fn.called /\ EntriesOfHeader # {}) => MappedToItself

\* C16: a raw table whose one header is a canonical name of the alias table
\* has it mapped to itself, when no later entry of the table has a name or
\* an alias with the same normalized text.
C16_CanonicalUnchangedNoCollision ==
    \A k \in EntriesOfHeader :
        (fn.called /\ NoLaterCollision(k)) => MappedToItself

\* The header is the second canonical name; an alias of the first entry
\* normalizes to the same text and was replaced in the lookup.
C16_Witness ==
    /\ fn.called
    /\ Len(fn.alias_map) = 2
    /\ fn.columns = <<fn.alias_map[2].canonical>>
    /\ fn.alias_map[1].aliases # <<>>
    /\ normalize_header(fn.alias_map[1].aliases[1])
          = normalize_header(fn.alias_map[2].canonical)
    /\ MappedToItself

(***************************************************************************)
(* SpecPrepare: prepare_dataframe applied to a raw table of channel OZ,    *)
(* with and without the strict flag.                                       *)
(***************************************************************************)
\* Cells of the amount column: numbers written with a decimal comma or a
\* decimal point, with and without a blank between the thousands, a number
\* with blanks around it, an integer, and cells that hold no number.
AmountCells ==
    {Null,
     Text(<<"1", " ", "2", "3", "4", ",", "5", "6">>),
     Text(<<"1", "2", "3", "4", ",", "5", "6">>),
     Text(<<"1", "2", "3", "4", ".", "5", "6">>),
     Text(<<" ", "1", "2", ",", "5", " ">>),
     Text(<<"5", "6">>),
     Text(<<"-">>),
     Text(<<>>)}

\* Cells of the product code column: null, blank, a code, text without one.
PrepArticuls ==
    RawArticuls \cup {Text(<<" ">>)}

\* The rows of the raw table: every product code cell with one amount, and
\* every amount cell with one product code.
PrepRows ==
    {r \in [articul : PrepArticuls, articul_store : Stores, ordered : {10},
            amount : AmountCells, id_key : {NaN}] :
        \/ r.amount = Text(<<"1", "2", "3", "4", ",", "5", "6">>)
        \/ r.articul = Text(<<"1", "2", "3", "4", " ", "5", "6", "7", " ",
                              "8", "9">>)}

NoError == [type |-> "none", file_path |-> "", articuls |-> <<>>]

PrepareIdle == [called |-> FALSE, df |-> <<>>, file_path |-> "a.xlsx",
                fail_on_invalid_articul |-> FALSE, raised |-> FALSE,
                error |-> NoError, logged |-> logged_error("", NoError),
                dataframe |-> <<>>, invalid_articuls |-> <<>>]

InitPrepare ==
    /\ fn \in {[PrepareIdle EXCEPT !.df = df, !.fail_on_invalid_articul = f] :
                  df \in SeqUpTo(PrepRows, MaxPrepRows) \ {<<>>},
                  f \in BOOLEAN}
    /\ base = NoFrames
    /\ run = RunIdle
    /\ registry = NoSheets
    /\ registry_file = NoSheets
    /\ rc = CallsIdle
    /\ dd = DedupeIdle
    /\ ia = IdsIdle

\* transform.py:69-115: ValueError under the strict flag when a business
\* key is invalid, logged by the caller (cli.py:157-160); the prepared batch
\* and the quarantine set otherwise.
CallPrepare ==
    /\ ~fn.called
    /\ \/ /\ prepare_raises(fn.df, fn.fail_on_invalid_articul)
          /\ LET exc == invalid_articuls_error(fn.df, fn.file_path)
             IN  fn' = [fn EXCEPT !.called = TRUE, !.raised = TRUE,
                                 !.error = exc,
                                 !.logged = logged_error(fn.file_path, exc)]
       \/ /\ ~prepare_raises(fn.df, fn.fail_on_invalid_articul)
          /\ fn' = [fn EXCEPT
                      !.called = TRUE,
                      !.dataframe = prepare_dataframe(fn.df, "OZ", 1),
                      !.invalid_articuls = invalid_articuls(fn.df)]
    /\ UNCHANGED <<base, run, registry, registry_file, rc, dd, ia>>

NextPrepare == CallPrepare

SpecPrepare == InitPrepare /\ [][NextPrepare]_vars

\* The rows of the raw table whose business key is flagged invalid.
InvalidRows == {i \in 1..Len(fn.df) : invalid_articul(fn.df[i].articul)}

\* C17: without the strict flag the prepared batch has one row per row of the
\* raw table, in order; a row with an invalid business key is in the batch
\* without a product code, and the quarantine set holds exactly those rows,
\* each with its raw value and its (absent) normalized value.
C17_NothingExcluded ==
    (fn.called /\ ~fn.fail_on_invalid_articul) =>
        /\ ~fn.raised
        /\ Len(fn.dataframe) = Len(fn.df)
        /\ \A i \in 1..Len(fn.df) :
              /\ fn.dataframe[i].articul_store = fn.df[i].articul_store
              /\ fn.dataframe[i].ordered = fn.df[i].ordered
        /\ \A i \in InvalidRows : fn.dataframe[i].articul_product = None
        /\ Len(fn.invalid_articuls) = Cardinality(InvalidRows)
        /\ \A i \in InvalidRows :
              \E j \in 1..Len(fn.invalid_articuls) :
                  /\ fn.invalid_articuls[j].articul = fn.df[i].articul
                  /\ fn.invalid_articuls[j].articul_product_normalized = None

\* A table with an invalid key in its first row and a valid one in its
\* second: both are in the batch, the first is in the quarantine set.
C17_Witness ==
    /\ fn.called /\ ~fn.fail_on_invalid_articul
    /\ Len(fn.df) = 2
    /\ InvalidRows = {1}
    /\ Len(fn.dataframe) = 2
    /\ fn.dataframe[2].articul_product = "1234-567-89"
    /\ Len(fn.invalid_articuls) = 1

\* The amount a cell stands for when its blanks are thousands separators
\* and its comma is the decimal sign.
AmountMeant(value) == to_numeric(replace_commas_drop_blanks(as_str(value)))

\* C20: a cell of the amount column written as a number with a decimal
\* comma, with or without blanks between its digits, gives that number:
\* "1 234,56" gives 1234.56.
C20_DecimalComma ==
    (fn.called /\ ~fn.raised) =>
        \A i \in 1..Len(fn.df) :
            (~fn.df[i].amount.isnull /\ AmountMeant(fn.df[i].amount) # NaN) =>
                fn.dataframe[i].ordered_for_the_amount
                    = AmountMeant(fn.df[i].amount)

(***************************************************************************)
(* SpecEnrich: enrich_report applied to a report and a product master as   *)
(* load_product_master returns it.                                         *)
(***************************************************************************)
\* report_df.merge(product_df, on="articul_product", how="left"): each report
\* row once per master row with its code, or once without a name.
RECURSIVE merge_left(_, _, _)
merge_left(report_df, product_df, i) ==
    IF i > Len(report_df) THEN <<>>
    ELSE LET r == report_df[i]
             hits == TakeIdx(product_df,
                         {j \in 1..Len(product_df) :
                             product_df[j].articul_product = r.articul_product},
                         1)
             named(name) ==
                 [articul_product |-> r.articul_product,
                  articul_store |-> r.articul_store,
                  playground |-> r.playground,
                  report_week |-> r.report_week,
                  name_product |-> name]
         IN  (IF hits = <<>> THEN <<named(None)>>
              ELSE [j \in 1..Len(hits) |-> named(hits[j].name_product)])
                 \o merge_left(report_df, product_df, i + 1)

\* The four columns of the unmatched set.
Combination(r) ==
    [articul_product |-> r.articul_product, articul_store |-> r.articul_store,
     playground |-> r.playground, report_week |-> r.report_week]

\* DataFrame.drop_duplicates(): the first of the rows that are equal.
drop_duplicates(df) ==
    TakeIdx(df, {i \in 1..Len(df) : \A j \in 1..(i - 1) : df[j] # df[i]}, 1)

enrich_report(report_df, product_df) ==
    IF report_df = <<>> THEN [enriched |-> report_df, unmatched |-> <<>>]
    ELSE LET enriched == merge_left(report_df, product_df, 1)
             unmatched_mask ==
                 {i \in 1..Len(enriched) :
                     /\ enriched[i].name_product = None
                     /\ enriched[i].articul_product # None}
             selected == TakeIdx(enriched, unmatched_mask, 1)
         IN  [enriched |-> enriched,
              unmatched |-> drop_duplicates(
                  [i \in 1..Len(selected) |-> Combination(selected[i])])]

ReportRows ==
    [articul_product : {None, "1234-567-89", "1234-567-90"},
     articul_store : Stores, playground : ChannelSet, report_week : {"202536"}]

\* load_product_master: codes as text, one row per code; the name is absent
\* where the master has none.
MasterRows ==
    [articul_product : {"1234-567-89", "1234-567-90"},
     name_product : {None, "name"}]

ProductMasters ==
    {m \in SeqUpTo(MasterRows, MaxMasterRows) :
        \A i, j \in 1..Len(m) :
            i # j => m[i].articul_product # m[j].articul_product}

EnrichIdle == [called |-> FALSE, report_df |-> <<>>, product_df |-> <<>>,
               enriched |-> <<>>, unmatched |-> <<>>]

InitEnrich ==
    /\ fn \in {[EnrichIdle EXCEPT !.report_df = r, !.product_df = m] :
                  r \in SeqUpTo(ReportRows, MaxReportRows),
                  m \in ProductMasters}
    /\ base = NoFrames
    /\ run = RunIdle
    /\ registry = NoSheets
    /\ registry_file = NoSheets
    /\ rc = CallsIdle
    /\ dd = DedupeIdle
    /\ ia = IdsIdle

CallEnrich ==
    /\ ~fn.called
    /\ LET r == enrich_report(fn.report_df, fn.product_df)
       IN  fn' = [fn EXCEPT !.called = TRUE, !.enriched = r.enriched,
                           !.unmatched = r.unmatched]
    /\ UNCHANGED <<base, run, registry, registry_file, rc, dd, ia>>

NextEnrich == CallEnrich

SpecEnrich == InitEnrich /\ [][NextEnrich]_vars

\* The codes the product master has a row for.
MasterCodes == {fn.product_df[j].articul_product : j \in 1..Len(fn.product_df)}

\* C18: a combination is in the unmatched set exactly when a report row with
\* it has a code that is present and has no row in the product master; the
\* unmatched set repeats no combination.
C18_UnmatchedExactly ==
    fn.called =>
        /\ \A c \in ReportRows :
              (c \in Range(fn.unmatched)) <=>
                  /\ c \in Range(fn.report_df)
                  /\ c.articul_product # None
                  /\ c.articul_product \notin MasterCodes
        /\ Distinct(fn.unmatched)

CellNone == [t |-> "none"]
CellStr(chars) == [t |-> "str", chars |-> chars]
CellInt(n) == [t |-> "int", n |-> n]

\* extract_workbook_details (269-300) for one sheet: the rows padded with
\* None to the longest row, the first one the header, the others the data
\* rows.  _normalise_column_names gives one name per header cell and the
\* names are pairwise distinct, so the columns are modelled by their number.
pad(row, max_length) ==
    row \o [i \in 1..(max_length - Len(row)) |-> CellNone]

extract_workbook_details(rows) ==
    IF rows = <<>>
    THEN [normalized_columns |-> 0, rows |-> <<>>, row_count |-> 0]
    ELSE LET max_length == SetMax({Len(rows[i]) : i \in 1..Len(rows)})
             padded_rows == [i \in 1..Len(rows) |-> pad(rows[i], max_length)]
             data_rows == Tail(padded_rows)
         IN  [normalized_columns |-> max_length, rows |-> data_rows,
              row_count |-> Len(data_rows)]

\* What SQLite stores for a value bound to a column declared NUMERIC: a text
\* that is a well-formed integer literal is stored as that integer, any
\* other value as it is.
numeric_affinity(cell) ==
    IF /\ cell.t = "str"
       /\ cell.chars # <<>>
       /\ \A i \in 1..Len(cell.chars) : IsDigit(cell.chars[i])
    THEN CellInt(int_value(cell.chars))
    ELSE cell

\* A database file of the output directory: absent, or holding the table
\* sheet_data with its rows in insertion order.
NoDatabase == [exists |-> FALSE, placeholder |-> FALSE, rows |-> <<>>]

\* create_sheet_databases (312-330) for one sheet: sqlite3.connect opens the
\* file or creates it, CREATE TABLE IF NOT EXISTS leaves a table of an
\* earlier call as it is, executemany inserts the sheet's rows after the rows
\* the table holds.
create_sheet_database(sheet, database) ==
    IF sheet.normalized_columns = 0
    THEN IF database.exists THEN database
         ELSE [exists |-> TRUE, placeholder |-> TRUE, rows |-> <<>>]
    ELSE [exists |-> TRUE, placeholder |-> database.placeholder,
          rows |-> database.rows \o
              [i \in 1..Len(sheet.rows) |->
                  [j \in 1..Len(sheet.rows[i]) |->
                      numeric_affinity(sheet.rows[i][j])]]]

create_sheet_databases(sheets, databases) ==
    [i \in DOMAIN databases |->
        IF i <= Len(sheets) THEN create_sheet_database(sheets[i], databases[i])
        ELSE databases[i]]

\* create_sheet_dictionary (333-360): row_count of every sheet, written over
\* the dictionary of an earlier call.
create_sheet_dictionary(sheets) ==
    [i \in 1..Len(sheets) |-> sheets[i].row_count]

HeaderCells == {CellStr(<<"h">>)}
DataCells == {CellNone, CellStr(<<"A">>), CellStr(<<"0", "7">>), CellInt(3)}

\* The sheets _read_sheet can return: no row at all, or a header row and the
\* rows after it.
SheetContents ==
    {<<>>} \cup
    {<<header>> \o body : header \in SeqUpTo(HeaderCells, MaxWidth),
                          body \in SeqUpTo(SeqUpTo(DataCells, MaxWidth),
                                           MaxDataRows)}

Workbooks == UNION {[1..k -> SheetContents] : k \in 1..MaxSheets}

InitWorkbook ==
    /\ fn \in [workbook : Workbooks,
               databases : {[i \in 1..MaxSheets |-> NoDatabase]},
               dictionary : {<<>>},
               calls : {0}]
    /\ base = NoFrames
    /\ run = RunIdle
    /\ registry = NoSheets
    /\ registry_file = NoSheets
    /\ rc = CallsIdle
    /\ dd = DedupeIdle
    /\ ia = IdsIdle

\* process_workbook (363-378) on fn.workbook and the output directory.
ProcessWorkbook ==
    /\ fn.calls < MaxProcessCalls
    /\ LET sheets == [i \in 1..Len(fn.workbook) |->
                         extract_workbook_details(fn.workbook[i])]
       IN  fn' = [fn EXCEPT
                    !.databases = create_sheet_databases(sheets, fn.databases),
                    !.dictionary = create_sheet_dictionary(sheets),
                    !.calls = fn.calls + 1]
    /\ UNCHANGED <<base, run, registry, registry_file, rc, dd, ia>>

NextWorkbook == ProcessWorkbook

SpecWorkbook == InitWorkbook /\ [][NextWorkbook]_vars

\* The rows of a sheet after its header row, as the sheet holds them.
DataRowsOf(rows) == extract_workbook_details(rows).rows

\* C22: after every completed call of process_workbook, the database of each
\* sheet holds the table sheet_data with exactly the data rows of the sheet,
\* in sheet order, and the dictionary's row_count of the sheet is the number
\* of rows of that table.
C22_TableHoldsDataRows ==
    fn.calls > 0 =>
        \A i \in 1..Len(fn.workbook) :
            /\ fn.databases[i].exists
            /\ fn.databases[i].rows = DataRowsOf(fn.workbook[i])
            /\ fn.dictionary[i] = Len(fn.databases[i].rows)

(***************************************************************************)
(* SpecNormalizeHeader: normalize_header applied to every header.          *)
(***************************************************************************)
HeaderChars == {"a", "Q", " ", ",", "_", "U+00E9"}

InitNormalizeHeader ==
    /\ fn \in [called : {FALSE}, name : SeqUpTo(HeaderChars, MaxHeaderLen),
               normalized : {<<>>}]
    /\ base = NoFrames
    /\ run = RunIdle
    /\ registry = NoSheets
    /\ registry_file = NoSheets
    /\ rc = CallsIdle
    /\ dd = DedupeIdle
    /\ ia = IdsIdle

CallNormalizeHeader ==
    /\ ~fn.called
    /\ fn' = [fn EXCEPT !.called = TRUE,
                        !.normalized = normalize_header(fn.name)]
    /\ UNCHANGED <<base, run, registry, registry_file, rc, dd, ia>>

NextNormalizeHeader == CallNormalizeHeader

SpecNormalizeHeader == InitNormalizeHeader /\ [][NextNormalizeHeader]_vars

\* C23: the result of normalize_header never holds two adjacent "_" and
\* never starts or ends with "_".
C23_SingleSeparator ==
    fn.called =>
        /\ \A i \in 1..(Len(fn.normalized) - 1) :
              ~(fn.normalized[i] = "_" /\ fn.normalized[i + 1] = "_")
        /\ fn.normalized # <<>> =>
              fn.normalized[1] # "_" /\ fn.normalized[Len(fn.normalized)] # "_"

(***************************************************************************)
(* SpecMapColumns: map_columns applied to the headers of a raw table in    *)
(* which several headers map to one canonical name.                        *)
(***************************************************************************)
\* Headers that normalize to q, to s, to x, and the header q_1.
MapHeaders ==
    {<<"q">>, <<"Q">>, <<"q", " ">>, <<"s">>, <<"S">>, <<"x">>, <<"x", "-">>,
     <<"q", "_", "1">>}

\* Alias tables without aliases: the canonical names q, s and q_1.
MapAliasTables ==
    {<<[canonical |-> <<"q">>, aliases |-> <<>>]>>,
     <<[canonical |-> <<"q">>, aliases |-> <<>>],
       [canonical |-> <<"s">>, aliases |-> <<>>]>>,
     <<[canonical |-> <<"s">>, aliases |-> <<>>],
       [canonical |-> <<"q">>, aliases |-> << <<"x">> >>]>>,
     <<[canonical |-> <<"q">>, aliases |-> <<>>],
       [canonical |-> <<"q", "_", "1">>, aliases |-> <<>>]>>}

InitMapColumns ==
    /\ fn \in {[called |-> FALSE, alias_map |-> t, columns |-> cs,
                 canonical_map |-> <<>>, other_map |-> <<>>] :
                   t \in MapAliasTables,
                   cs \in {x \in SeqUpTo(MapHeaders, MaxMapColumns) :
                              Distinct(x)}}
    /\ base = NoFrames
    /\ run = RunIdle
    /\ registry = NoSheets
    /\ registry_file = NoSheets
    /\ rc = CallsIdle
    /\ dd = DedupeIdle
    /\ ia = IdsIdle

NextMapColumns == CallMapColumns

SpecMapColumns == InitMapColumns /\ [][NextMapColumns]_vars

\* The canonical name the alias table gives header i, <<>> when it has none.
CanonicalOf(i) ==
    lookup_get(build_alias_lookup(fn.alias_map), normalize_header(fn.columns[i]))

\* The headers before header i that were given the same canonical name.
EarlierSame(i) == {j \in 1..(i - 1) : CanonicalOf(j) = CanonicalOf(i)}

\* The name canonical_map gives header i.
CanonicalNameOf(i) ==
    {fn.canonical_map[j].name : j \in {m \in 1..Len(fn.canonical_map) :
                                  fn.canonical_map[m].column = fn.columns[i]}}

\* C24: among the headers of a table given the canonical name c, the first
\* is named c and the k-th after it c_k, wherever the headers given other
\* canonical names stand.
C24_SuffixNumbering ==
    fn.called =>
        \A i \in 1..Len(fn.columns) :
            CanonicalOf(i) # <<>> =>
                CanonicalNameOf(i) =
                    {IF EarlierSame(i) = {} THEN CanonicalOf(i)
                     ELSE CanonicalOf(i) \o <<"_">> \o
                          digit_text(Cardinality(EarlierSame(i)))}

\* Two headers named q with a header named s between them.
C24_Witness ==
    /\ fn.called
    /\ Len(fn.canonical_map) = 3
    /\ fn.canonical_map[1].name = <<"q">>
    /\ fn.canonical_map[2].name = <<"s">>
    /\ fn.canonical_map[3].name = <<"q", "_", "1">>

\* The names map_columns generated, canonical and other together.
GeneratedNames ==
    [i \in 1..Len(fn.canonical_map) |-> fn.canonical_map[i].name]
        \o [i \in 1..Len(fn.other_map) |-> fn.other_map[i].name]

\* C25: whatever the alias table, the names map_columns generates for
\* pairwise distinct headers are pairwise distinct.
C25_NamesDistinct == fn.called => Distinct(GeneratedNames)

(***************************************************************************)
(* transform.py: the columns of the prepared batch.  A table is modelled   *)
(* by the list of its column names.                                        *)
(***************************************************************************)
CANONICAL_COLUMNS ==
    <<<<"i", "d", "_", "k", "e", "y">>,
      <<"a", "r", "t", "i", "c", "u", "l", "_", "p", "r", "o", "d", "u", "c", "t">>,
      <<"a", "r", "t", "i", "c", "u", "l", "_", "s", "t", "o", "r", "e">>,
      <<"p", "l", "a", "y", "g", "r", "o", "u", "n", "d">>,
      <<"o", "r", "d", "e", "r", "e", "d">>,
      <<"o", "r", "d", "e", "r", "e", "d", "_", "f", "o", "r", "_", "t", "h", "e", "_", "a", "m", "o", "u", "n", "t">>,
      <<"r", "e", "p", "o", "r", "t", "_", "p", "e", "r", "i", "o", "d", "_", "s", "t", "a", "r", "t">>,
      <<"r", "e", "p", "o", "r", "t", "_", "p", "e", "r", "i", "o", "d", "_", "e", "n", "d">>,
      <<"r", "e", "p", "o", "r", "t", "_", "w", "e", "e", "k">>,
      <<"f", "i", "l", "e", "_", "s", "o", "u", "r", "c", "e">>>>

\* apply_column_mappings (51-59): every column renamed by rename_map, the
\* canonical map updated with the other map.
renamed_column(column, maps) ==
    LET other == {j \in 1..Len(maps.other_map) :
                     maps.other_map[j].column = column}
        canonical == {j \in 1..Len(maps.canonical_map) :
                         maps.canonical_map[j].column = column}
    IN  IF other # {} THEN maps.other_map[SetMax(other)].name
        ELSE IF canonical # {} THEN maps.canonical_map[SetMax(canonical)].name
        ELSE column

apply_column_mappings(columns, alias_map) ==
    LET maps == map_columns(columns, build_alias_lookup(alias_map))
    IN  [i \in 1..Len(columns) |-> renamed_column(columns[i], maps)]

\* ensure_columns (normalize.py:99-103): a missing column is added after the
\* columns the table has.
RECURSIVE ensure_columns(_, _)
ensure_columns(df_columns, columns) ==
    IF columns = <<>> THEN df_columns
    ELSE ensure_columns(
             IF Head(columns) \in Range(df_columns) THEN df_columns
             ELSE Append(df_columns, Head(columns)),
             Tail(columns))

\* The order of str: characters compare by code point, a proper prefix is
\* smaller.
CodePointOrder ==
    <<" ", ",", "-", "0", "1", "2", "3", "4", "5", "6", "7", "8", "9",
      "A", "O", "Q", "S", "_", "a", "c", "d", "e", "f", "g", "h", "i", "k",
      "l", "m", "n", "o", "p", "q", "r", "s", "t", "u", "w", "x", "y">>

code_point(c) == CHOOSE i \in 1..Len(CodePointOrder) : CodePointOrder[i] = c

RECURSIVE str_less(_, _)
str_less(a, b) ==
    IF b = <<>> THEN FALSE
    ELSE IF a = <<>> THEN TRUE
    ELSE IF Head(a) # Head(b) THEN code_point(Head(a)) < code_point(Head(b))
    ELSE str_less(Tail(a), Tail(b))

\* list.sort() of names.
RECURSIVE insert_sorted(_, _)
insert_sorted(name, sorted) ==
    IF sorted = <<>> THEN <<name>>
    ELSE IF str_less(name, Head(sorted)) THEN <<name>> \o sorted
    ELSE <<Head(sorted)>> \o insert_sorted(name, Tail(sorted))

RECURSIVE sort(_)
sort(names) ==
    IF names = <<>> THEN <<>> ELSE insert_sorted(Head(names), sort(Tail(names)))

\* col.startswith("Other_")
startswith_other(name) ==
    Len(name) >= Len(OtherPrefix) /\ SubSeq(name, 1, Len(OtherPrefix)) = OtherPrefix

\* reorder_columns (normalize.py:106-109).
reorder_columns(df_columns, preferred_order) ==
    LET preferred == SelectSeq(preferred_order,
                               LAMBDA c : c \in Range(df_columns))
        others == SelectSeq(df_columns, LAMBDA c : c \notin Range(preferred))
    IN  preferred \o others

\* The columns of the batch prepare_dataframe returns (75-77, 108-111); the
\* coercions and the stamping in between assign to columns the table has.
prepared_columns(columns, alias_map) ==
    LET working == ensure_columns(apply_column_mappings(columns, alias_map),
                                  CANONICAL_COLUMNS)
        ordered_columns == sort(SelectSeq(working, startswith_other))
    IN  reorder_columns(working, CANONICAL_COLUMNS \o ordered_columns)

\* SpecColumns: prepare_dataframe applied to raw tables whose headers are
\* the canonical name ordered, an alias of it and unknown headers.
TableHeaders ==
    {<<"o", "r", "d", "e", "r", "e", "d">>, <<"q">>, <<"x">>, <<"x", "-">>,
     <<"n">>, <<"-">>}

TableAliasMaps ==
    {<<[canonical |-> <<"o", "r", "d", "e", "r", "e", "d">>,
        aliases |-> <<>>]>>,
     <<[canonical |-> <<"o", "r", "d", "e", "r", "e", "d">>,
        aliases |-> << <<"q">> >>]>>}

InitColumns ==
    /\ fn \in {[called |-> FALSE, alias_map |-> t, columns |-> cs,
                 dataframe_columns |-> <<>>] :
                   t \in TableAliasMaps,
                   cs \in {x \in SeqUpTo(TableHeaders, MaxTableColumns) :
                              Distinct(x)}}
    /\ base = NoFrames
    /\ run = RunIdle
    /\ registry = NoSheets
    /\ registry_file = NoSheets
    /\ rc = CallsIdle
    /\ dd = DedupeIdle
    /\ ia = IdsIdle

CallPrepareColumns ==
    /\ ~fn.called
    /\ fn' = [fn EXCEPT !.called = TRUE,
                        !.dataframe_columns =
                            prepared_columns(fn.columns, fn.alias_map)]
    /\ UNCHANGED <<base, run, registry, registry_file, rc, dd, ia>>

NextColumns == CallPrepareColumns

SpecColumns == InitColumns /\ [][NextColumns]_vars

\* The columns of the batch after the canonical ones.
AfterCanonical ==
    SubSeq(fn.dataframe_columns, Len(CANONICAL_COLUMNS) + 1,
           Len(fn.dataframe_columns))

\* C26: the columns of a prepared batch are the canonical fields in schema
\* order, then Other_* columns in lexicographic order, and nothing else.
C26_ColumnOrder ==
    fn.called =>
        /\ IsPrefix(CANONICAL_COLUMNS, fn.dataframe_columns)
        /\ \A i \in 1..Len(AfterCanonical) :
              startswith_other(AfterCanonical[i])
        /\ \A i \in 1..(Len(AfterCanonical) - 1) :
              ~str_less(AfterCanonical[i + 1], AfterCanonical[i])

(***************************************************************************)
(* load_week: failures, dry runs and metrics.                              *)
(***************************************************************************)
\* C27: under the strict flag only a file that yields invalid business keys
\* ends the run; an unreadable or empty file and a transform that fails for
\* another reason are skipped.
C27_OnlyInvalidKeysAbort ==
    (run.fail_on_invalid_articul /\ run.exit_code # 0) => run.invalid_seen

\* The raw product code cells of the table that are flagged invalid.
OffendingKeys == {fn.df[i].articul : i \in InvalidRows}

\* C28: the error of a strict abort names the offending file and at least
\* one offending key value, as raised and as logged.
C28_ErrorNamesFileAndKey ==
    fn.raised =>
        /\ fn.error.file_path = fn.file_path
        /\ \E i \in 1..Len(fn.error.articuls) :
              fn.error.articuls[i] \in OffendingKeys
        /\ fn.logged.file = fn.file_path
        /\ \E i \in 1..Len(fn.logged.exc.articuls) :
              fn.logged.exc.articuls[i] \in OffendingKeys

\* C29: a dry run changes no persisted state: the base workbook and the
\* registry file stay as they were before the run, and no report, quarantine
\* table, parquet export or run summary is written, whatever the files hold.
C29_DryRunWritesNothing ==
    run.dry_run =>
        /\ base = run.base_before
        /\ registry_file = run.registry_before
        /\ run.written = {}

\* A dry run that went through to the end on a history and a registry file
\* of an earlier run: it had rows to load, a duplicate and an invalid key to
\* report, and a new column registered in memory.
C29_Witness ==
    /\ run.dry_run
    /\ run.pc = "done" /\ run.exit_code = 0
    /\ run.runs = 2
    /\ base["OZ"] # <<>>
    /\ run.stats["OZ"].rows_loaded > 0
    /\ run.stats["OZ"].duplicates > 0
    /\ \E p \in ChannelSet : run.stats[p].invalid_articuls > 0
    /\ registry # registry_file
    /\ run.base_sheets # base

\* C30: in a completed run, for every channel, rows_loaded + duplicates is
\* at most rows_read, rows_loaded is the number of rows the run appended to
\* the channel's history, invalid_articuls is at most rows_read, and the
\* rows loaded or set aside as duplicates are the rows, one per key, of the
\* files that were processed: the rows of a file skipped after it was read
\* count in rows_read alone.
C30_MetricsConsistent ==
    (run.pc = "done" /\ run.exit_code = 0) =>
        \A p \in ChannelSet :
            /\ run.stats[p].rows_loaded + run.stats[p].duplicates
                  <= run.stats[p].rows_read
            /\ IsPrefix(run.base_before[p], run.base_sheets[p])
            /\ run.stats[p].rows_loaded =
                  Len(run.base_sheets[p]) - Len(run.base_before[p])
            /\ ~run.dry_run =>
                  run.stats[p].rows_loaded =
                      Len(base[p]) - Len(run.base_before[p])
            /\ run.stats[p].invalid_articuls <= run.stats[p].rows_read
            /\ run.stats[p].rows_loaded + run.stats[p].duplicates
                  = Cardinality(Keys(run.platform_data[p]))

\* A second run in which a file of OZ was skipped after it was read and the
\* other was loaded, and the file of WB held a key of the history.
C30_Witness ==
    /\ run.pc = "done" /\ run.exit_code = 0
    /\ ~run.dry_run
    /\ run.runs = 2
    /\ run.stats["OZ"].rows_read = 2
    /\ run.stats["OZ"].rows_loaded = 1
    /\ run.stats["OZ"].duplicates = 0
    /\ run.stats["WB"].rows_read = 1
    /\ run.stats["WB"].duplicates = 1

=============================================================================
